---- MODULE Spec2Model ----
(***************************************************************************)
(* State-machine model of the discord-linear-bot synchronization engine:   *)
(* the SQLite store (src/src/db.rs), Forward Sync                          *)
(* (src/src/sync/discord_to_linear.rs), the live thread_create handler     *)
(* (src/src/discord/handler.rs), the backfill (src/src/sync/backfill.rs),  *)
(* the process lifecycle (src/src/main.rs) and the Linear poller with the  *)
(* two reverse syncs (src/src/linear/poller.rs,                            *)
(* src/src/sync/linear_to_discord.rs).                                     *)
(*                                                                         *)
(* Every await of the source is a step: a remote call or a store call      *)
(* either succeeds or returns an error (chosen nondeterministically).      *)
(***************************************************************************)
EXTENDS Integers, Sequences, FiniteSets, TLC

(***************************************************************************)
(* Bounds of the model.                                                    *)
(***************************************************************************)
\* Number of Discord threads the model knows.
NumThreads == 4
\* Number of threads of the guild in the behaviours with gateway events (the
\* most recent ones); the behaviours without gateway events have all of them.
NumLiveThreads == 2
\* Snowflake id of the oldest thread; ids are consecutive from here.  Starting
\* at 9 makes the decimal strings "9" < "10" differ in length, so that numeric
\* and textual order of thread ids disagree.
FirstThreadId == 9
\* Cap on the number of issues the tracker accepts (create_issue fails beyond).
MaxIssues == 3
\* Number of times the process is started (1 + number of crashes/restarts).
MaxRuns == 2
\* Number of thread_create handler tasks that can be in flight at once.
MaxLive == 2
\* Number of Forward Sync invocations per thread in the behaviours where the
\* invocations follow one another.
MaxCalls == 2
\* Last instant of the clock: a poll tick and an update of an issue take one
\* instant each.
MaxClock == 4
\* Cap on the number of comments written in the tracker.
MaxComments == 1

(***************************************************************************)
(* Configuration and the chat platform's threads.                          *)
(***************************************************************************)
\* config.channels: the monitored forum channels, in configuration order.
channels == <<1, 2>>

ThreadIds == FirstThreadId .. (FirstThreadId + NumThreads - 1)

RecentThreadIds == {t \in ThreadIds : t > FirstThreadId + NumThreads - 1 - NumLiveThreads}

\* thread.parent_id: every fourth thread lives in forum channel 2, the others
\* in forum channel 1 (with FirstThreadId = 9: 9, 10, 11 in channel 1, 12 in 2).
parent_id(t) == IF t % 4 = 0 THEN 2 ELSE 1

\* A thread the guild lists without a parent channel (GuildChannel.parent_id
\* is an Option).
DetachedThread == FirstThreadId + NumThreads

AllThreads == ThreadIds \cup {DetachedThread}

\* Config::channel_config(id).is_some()
is_monitored_channel(c) == \E i \in 1..Len(channels) : channels[i] = c

\* ChannelConfig.linear_team_id: each forum channel feeds its own team.
linear_team_id(c) == c

\* ChannelConfig.linear_label_id: the primary label of each forum channel.
linear_label_id(c) == IF c = 1 THEN "bug" ELSE "feature"

\* ChannelConfig.tag_label_map: forum tag id (as a string) -> label id.  Tags
\* 1 and 2 are mapped in channel 1, tag 2 alone in channel 2; tag 3 never is.
tag_label_map(c) ==
    IF c = 1 THEN (<<1>> :> "ui") @@ (<<2>> :> "api") ELSE (<<2>> :> "infra")

\* The workflow states of the tracker.
StatusNames == {"Todo", "Done"}

(***************************************************************************)
(* Option<T> is a sequence of length 0 (None) or 1 (Some).                 *)
(***************************************************************************)
None == <<>>
Some(x) == <<x>>

(***************************************************************************)
(* u64 <-> String.  A string is the sequence of its decimal digits.        *)
(***************************************************************************)
RECURSIVE to_string(_)
to_string(n) == IF n < 10 THEN <<n>> ELSE Append(to_string(n \div 10), n % 10)

RECURSIVE digits_value(_)
digits_value(s) ==
    IF s = <<>> THEN 0 ELSE 10 * digits_value(SubSeq(s, 1, Len(s) - 1)) + s[Len(s)]

\* str::parse::<u64>().unwrap_or(0): the empty string does not parse.
parse_or_zero(s) == IF s = <<>> THEN 0 ELSE digits_value(s)

(***************************************************************************)
(* State.                                                                  *)
(***************************************************************************)
VARIABLES
    guild,           \* chat: the threads that exist (get_active_threads lists them)
    message_race,    \* chat: whether a fetch of a thread's first message can come
                     \* back empty or fail (the message is not there yet)
    applied_tags,    \* chat: thread.applied_tags, the forum tags of every thread
    attachments,     \* chat: msg.attachments, the files of every first message
    sync_mappings,   \* table sync_mappings: set of rows
    backfill_state,  \* table backfill_state: channel id string -> Option<row>
    issues,          \* tracker: issues[i] is the thread issue i was created for
    confirmations,   \* chat: confirmation messages posted, [thread, issue]
    phase,           \* main(): "backfill" (run_backfill awaited) or "live"
    runs,            \* number of process starts so far
    bf,              \* run_backfill / backfill_channel position and locals
    sync,            \* Forward Sync invocations: task 0 is the backfill's call,
                     \* tasks 1..MaxLive are thread_create handler tasks
    linear_status_cache, \* table linear_status_cache: issue id -> Option<status_name>
    synced_comments, \* table synced_comments: set of rows
    status_messages, \* chat: status messages posted, in order
    comment_messages,\* chat: comment messages posted, in order
    clock,           \* the time (chrono::Utc::now())
    poller,          \* run_poller position and locals
    fetch_ok,        \* history: teams whose get_updated_issues succeeded this tick
    failed_since,    \* history: team -> Option<since of its last fetch, if it failed>
    sync_failed,     \* history: issues whose status or comment sync returned Err the
                     \* last time the poller processed them
    calls,           \* history: threads the backfill of this run invoked Forward Sync on
    snap,            \* history: the store as it was when this process started
    failed,          \* history: threads whose Forward Sync returned Err to the backfill
    results,         \* history: thread -> what its Forward Sync invocations returned,
                     \* in the behaviours where the invocations follow one another
    mirrored,        \* history: task -> the attachments of its invocation whose
                     \* download, upload-slot request and upload all succeeded
    say_failed       \* history: threads for which the post of the confirmation failed

vars == <<guild, message_race, applied_tags, attachments, sync_mappings, backfill_state, issues, confirmations, phase, runs, bf,
          sync, calls, snap, failed, results, mirrored, say_failed, linear_status_cache, synced_comments,
          status_messages, comment_messages, clock, poller, fetch_ok, failed_since,
          sync_failed>>

store == <<sync_mappings, backfill_state>>
remote == <<guild, message_race, applied_tags, attachments, issues, confirmations>>
history == <<calls, snap, failed, results, mirrored, say_failed>>
\* What the reverse direction writes; the forward direction leaves it alone.
reverse == <<linear_status_cache, synced_comments, status_messages, comment_messages,
             fetch_ok, failed_since, sync_failed>>
\* What the forward direction owns, apart from the tracker's issues.
forward == <<guild, message_race, applied_tags, attachments, sync_mappings, backfill_state, confirmations, phase, runs, bf, sync,
             calls, snap, failed, results, mirrored, say_failed>>

LiveTasks == 1..MaxLive
Tasks == 0..MaxLive

\* A Forward Sync invocation: its thread, its position, the issue it created,
\* fetch_first_message_with_retry's attempts made and result, the attachments
\* the loop has still to visit and the links it has collected.
Idle == [thread |-> 0, pc |-> "idle", issue |-> 0, attempt |-> 0, first_message |-> None,
         pending |-> <<>>, attachment_links |-> <<>>]
Invocation(t) == [Idle EXCEPT !.thread = t, !.pc = "check"]

ChannelKeys == {to_string(channels[i]) : i \in 1..Len(channels)}

BfStart == [pc |-> "run", ci |-> 1, threads |-> <<>>]

\* Config::unique_team_ids(): sorted, without duplicates.
RECURSIVE sorted(_)
sorted(S) ==
    IF S = {} THEN <<>>
    ELSE LET m == CHOOSE x \in S : \A y \in S : x <= y
         IN  <<m>> \o sorted(S \ {m})

unique_team_ids == sorted({linear_team_id(channels[i]) : i \in 1..Len(channels)})

Teams == {unique_team_ids[i] : i \in 1..Len(unique_team_ids)}

\* The ids the tracker gives to issues: 1, 2, ... in creation order.
IssueIds == 1..MaxIssues

\* A poller that sleeps before its first tick from the start of main().
PollerEarly ==
    [pc |-> "sleep", last_poll |-> 0, now |-> 0, any_success |-> FALSE, ti |-> 0,
     queue |-> <<>>, status_changed |-> FALSE, comments |-> <<>>]

PollerOff ==
    [pc |-> "off", last_poll |-> 0, now |-> 0, any_success |-> FALSE, ti |-> 0,
     queue |-> <<>>, status_changed |-> FALSE, comments |-> <<>>]

\* run_poller 18: let mut last_poll = chrono::Utc::now()
PollerStarted(time) == [PollerOff EXCEPT !.pc = "sleep", !.last_poll = time]

\* The content of a thread's first message, and the body used without one
\* (discord_to_linear.rs 34-37).
content == "message"
placeholder == "(No message content available)"

\* The issue the tracker creates for a thread: create_issue's description is
\* the body, the thread's link and the attachment links.
NewIssue(thread, time, body, labels, links) ==
    [thread |-> thread, status_name |-> "Todo", updated_at |-> time, comments |-> <<>>,
     body |-> body, label_ids |-> labels, attachment_links |-> links]

Snapshot(mappings, state, created) ==
    [mapped |-> {t \in ThreadIds :
                    \E m \in mappings : m.discord_thread_id = to_string(t)},
     backfill_state |-> state,
     issues |-> Len(created)]

\* An empty database, tracker and chat.
InitEmpty ==
    /\ sync_mappings = {}
    /\ backfill_state = [c \in ChannelKeys |-> None]
    /\ issues = <<>>
    /\ confirmations = {}
    /\ runs = 1
    /\ sync = [k \in Tasks |-> Idle]
    /\ calls = <<>>
    /\ snap = Snapshot({}, [c \in ChannelKeys |-> None], <<>>)
    /\ failed = {}
    /\ results = [t \in AllThreads |-> <<>>]
    /\ mirrored = [k \in Tasks |-> <<>>]
    /\ say_failed = {}
    /\ linear_status_cache = [i \in IssueIds |-> None]
    /\ synced_comments = {}
    /\ status_messages = <<>>
    /\ comment_messages = <<>>
    /\ clock = 0
    /\ fetch_ok = {}
    /\ failed_since = [team \in Teams |-> None]
    /\ sync_failed = {}

\* main() starts on an empty database.
InitStore ==
    /\ InitEmpty
    /\ phase = "backfill"
    /\ bf = BfStart
    /\ poller = PollerOff

\* A guild with few threads whose first messages are there, for the
\* behaviours with gateway events.
Init ==
    /\ InitStore
    /\ guild = RecentThreadIds
    /\ message_race = FALSE
    /\ applied_tags = <<>>
    /\ attachments = <<>>

\* A guild with all the threads, whose first messages may be late.
InitBackfill ==
    /\ InitStore
    /\ guild = ThreadIds
    /\ message_race = TRUE
    /\ applied_tags = <<>>
    /\ attachments = <<>>

(***************************************************************************)
(* db.rs                                                                   *)
(***************************************************************************)
\* get_mapping_by_discord_thread: the rows fetch_optional chooses from.
get_mapping_by_discord_thread(rows, discord_thread_id) ==
    {m \in rows : m.discord_thread_id = discord_thread_id}

\* get_mapping_by_linear_issue
\* A lookup that finds a row whatever the issue.
any_mapping(rows, linear_issue_id) == rows

get_mapping_by_linear_issue(rows, linear_issue_id) ==
    {m \in rows : m.linear_issue_id = linear_issue_id}

\* The UNIQUE constraints of table sync_mappings (migrations/001_initial_schema.sql,
\* not among the sources; taken from the data model: "Unique on source_thread_id
\* and on tracker_issue_id").
sync_mappings_unique(rows, discord_thread_id, linear_issue_id) ==
    /\ get_mapping_by_discord_thread(rows, discord_thread_id) = {}
    /\ get_mapping_by_linear_issue(rows, linear_issue_id) = {}

\* An INSERT into a table without the constraints.
insert_unconstrained(rows, discord_thread_id, linear_issue_id) ==
    [ok |-> TRUE,
     rows |-> rows \cup {[discord_thread_id |-> discord_thread_id,
                          linear_issue_id |-> linear_issue_id]}]

\* An INSERT that reports success and stores nothing.
insert_nothing(rows, discord_thread_id, linear_issue_id) == [ok |-> TRUE, rows |-> rows]

\* create_mapping: a plain INSERT; a constraint violation is an sqlx::Error.
create_mapping(rows, discord_thread_id, linear_issue_id) ==
    IF sync_mappings_unique(rows, discord_thread_id, linear_issue_id)
    THEN [ok |-> TRUE,
          rows |-> rows \cup {[discord_thread_id |-> discord_thread_id,
                               linear_issue_id |-> linear_issue_id]}]
    ELSE [ok |-> FALSE, rows |-> rows]

\* A write that marks the channel completed whatever it is given.
mark_completed(state, channel_id, completed, last_thread_id) ==
    [state EXCEPT ![channel_id] =
        Some([completed |-> TRUE, last_thread_id |-> last_thread_id])]

\* upsert_backfill_state: INSERT ... ON CONFLICT(channel_id) DO UPDATE
upsert_backfill_state(state, channel_id, completed, last_thread_id) ==
    [state EXCEPT ![channel_id] =
        Some([completed |-> completed, last_thread_id |-> last_thread_id])]

(***************************************************************************)
(* sync_discord_to_linear (Forward Sync), one step per await.              *)
(***************************************************************************)
\* lines 19-26: the deduplication check, `.is_some()`.
NeverSynced(rows, thread) == FALSE

already_synced(rows, thread) ==
    get_mapping_by_discord_thread(rows, to_string(thread)) # {}

\* Every thread taken to have a parent channel.
parent_assumed(t) == Some(parent_id(t))

\* lines 28-30: thread.parent_id.ok_or_else(..)?
thread_parent(t) == IF t = DetachedThread THEN None ELSE Some(parent_id(t))

SyncCheckMapping(k) ==
    /\ sync[k].pc = "check"
    /\ \E db_ok \in BOOLEAN :
         sync' = [sync EXCEPT ![k].pc =
                    IF ~db_ok THEN "err"
                    ELSE IF already_synced(sync_mappings, sync[k].thread) THEN "ok"
                    ELSE IF thread_parent(sync[k].thread) = None THEN "err"
                    ELSE "fetch"]
    /\ UNCHANGED <<store, remote, phase, runs, bf, history, reverse, clock, poller>>

\* lines 114-141, fetch_first_message_with_retry: `for attempt in 0..3`.
MaxAttempts == 3

\* A loop that makes one attempt more.
one_more_attempt(attempts_made) == attempts_made >= MaxAttempts + 1

\* The loop ends after the attempt that brings the attempts made to 3.
retries_exhausted(attempts_made) == attempts_made >= MaxAttempts

\* One attempt of the loop: channel_id.messages(http, limit 1) gives the
\* message, an empty list or an error; the last two are logged and retried.
SyncFetchFirstMessage(k) ==
    /\ sync[k].pc = "fetch"
    /\ \E r \in IF message_race THEN {"message", "empty", "error"} ELSE {"message"} :
         LET s == sync[k]
         IN  sync' = [sync EXCEPT ![k] =
                        IF r = "message"
                        THEN [s EXCEPT !.pc = "upload", !.attempt = 0,
                                       !.first_message = Some(content),
                                       !.pending = attachments]
                        ELSE IF retries_exhausted(s.attempt + 1)
                        THEN [s EXCEPT !.pc = "upload", !.attempt = 0,
                                       !.first_message = None]
                        ELSE [s EXCEPT !.attempt = s.attempt + 1]]
    /\ UNCHANGED <<store, remote, phase, runs, bf, history, reverse, clock, poller>>

\* lines 34-37: the body of the issue.
message_body(first_message) ==
    IF first_message # None THEN first_message[1] ELSE placeholder

\* lines 40-48: the primary label, then the label of each applied tag that is
\* a key of the map (`tag_label_map.get(&tag_id.to_string())`).
RECURSIVE mapped_labels(_, _)
mapped_labels(map, tags) ==
    IF tags = <<>> THEN <<>>
    ELSE (IF to_string(Head(tags)) \in DOMAIN map
          THEN <<map[to_string(Head(tags))]>> ELSE <<>>)
         \o mapped_labels(map, Tail(tags))

\* A list with the primary label at its end.
primary_label_last(channel_config, tags) ==
    mapped_labels(tag_label_map(channel_config), tags) \o <<linear_label_id(channel_config)>>

label_ids(channel_config, tags) ==
    <<linear_label_id(channel_config)>> \o mapped_labels(tag_label_map(channel_config), tags)

\* lines 143-158, upload_attachment: download_attachment(..).await?, then
\* request_file_upload(..).await?, then upload_file_to_url(..).await, whose
\* Ok is the asset's URL.
asset_url(filename) == <<"asset", filename>>

\* An upload whose last step is not looked at.
upload_unchecked(filename, download_ok, request_ok, upload_ok) ==
    IF ~download_ok THEN None
    ELSE IF ~request_ok THEN None
    ELSE Some(asset_url(filename))

upload_attachment(filename, download_ok, request_ok, upload_ok) ==
    IF ~download_ok THEN None
    ELSE IF ~request_ok THEN None
    ELSE IF ~upload_ok THEN None
    ELSE Some(asset_url(filename))

\* line 55: format!("![{}]({})", attachment.filename, asset_url)
markdown_image(filename, url) == [filename |-> filename, asset_url |-> url]

\* lines 50-66: one turn of `for attachment in &msg.attachments` (no turn
\* without a first message); an Err is logged and the attachment skipped.
\* After the last turn the description is built.
SyncUploadAttachment(k) ==
    /\ sync[k].pc = "upload"
    /\ LET s == sync[k]
       IN  IF s.pending = <<>>
           THEN sync' = [sync EXCEPT ![k].pc = "create_issue"] /\ mirrored' = mirrored
           ELSE \E download_ok, request_ok, upload_ok \in BOOLEAN :
                  LET r == upload_attachment(Head(s.pending), download_ok, request_ok,
                                             upload_ok)
                  IN  /\ sync' = [sync EXCEPT
                                    ![k].pending = Tail(s.pending),
                                    ![k].attachment_links =
                                       IF r # None
                                       THEN Append(s.attachment_links,
                                                   markdown_image(Head(s.pending), r[1]))
                                       ELSE s.attachment_links]
                      /\ mirrored' = [mirrored EXCEPT ![k] =
                                         IF download_ok /\ request_ok /\ upload_ok
                                         THEN Append(@, Head(s.pending)) ELSE @]
    /\ UNCHANGED <<store, remote, phase, runs, bf, calls, snap, failed, results, say_failed,
                   reverse, clock, poller>>

\* lines 68-92: the description and linear.create_issue(..).await?  The first
\* message and the links are not read after the call.
SyncCreateIssue(k) ==
    /\ sync[k].pc = "create_issue"
    /\ \/ /\ Len(issues) < MaxIssues
          /\ issues' = Append(issues,
                              NewIssue(sync[k].thread, clock,
                                       message_body(sync[k].first_message),
                                       label_ids(parent_id(sync[k].thread), applied_tags),
                                       sync[k].attachment_links))
          /\ sync' = [sync EXCEPT ![k].pc = "create_mapping",
                                  ![k].issue = Len(issues) + 1,
                                  ![k].first_message = None,
                                  ![k].attachment_links = <<>>]
       \/ /\ issues' = issues
          /\ sync' = [sync EXCEPT ![k].pc = "err", ![k].first_message = None,
                                  ![k].attachment_links = <<>>]
    /\ mirrored' = [mirrored EXCEPT ![k] = <<>>]
    /\ UNCHANGED <<store, guild, message_race, applied_tags, attachments, confirmations,
                   phase, runs, bf, calls, snap, failed, results, say_failed, reverse, clock,
                   poller>>

\* lines 94-102: db::create_mapping(..).await?
SyncCreateMapping(k) ==
    /\ sync[k].pc = "create_mapping"
    /\ \E db_ok \in BOOLEAN :
         LET r == create_mapping(sync_mappings, to_string(sync[k].thread), sync[k].issue)
         IN  IF db_ok /\ r.ok
             THEN /\ sync_mappings' = r.rows
                  /\ sync' = [sync EXCEPT ![k].pc = "say"]
             ELSE /\ sync_mappings' = sync_mappings
                  /\ sync' = [sync EXCEPT ![k].pc = "err"]
    /\ UNCHANGED <<backfill_state, remote, phase, runs, bf, history, reverse, clock, poller>>

\* lines 104-111: thread.id.say(http, &reply).await?; Ok(())
SyncSayConfirmation(k) ==
    /\ sync[k].pc = "say"
    /\ \E discord_ok \in BOOLEAN :
         IF discord_ok
         THEN /\ confirmations' = confirmations \cup
                    {[thread |-> sync[k].thread, issue |-> sync[k].issue]}
              /\ sync' = [sync EXCEPT ![k].pc = "ok"]
              /\ say_failed' = say_failed
         ELSE /\ confirmations' = confirmations
              /\ sync' = [sync EXCEPT ![k].pc = "err"]
              /\ say_failed' = say_failed \cup {sync[k].thread}
    /\ UNCHANGED <<store, guild, message_race, applied_tags, attachments, issues, phase, runs,
                   bf, calls, snap, failed, results, mirrored, reverse, clock, poller>>

Returned(k) == sync[k].pc \in {"ok", "err"}

(***************************************************************************)
(* Handler::thread_create: the gateway runs each event in its own task.    *)
(***************************************************************************)
\* handler.rs 33-65: a THREAD_CREATE event for thread t starts Forward Sync.
thread_create(k, t) ==
    /\ phase = "live"
    /\ sync[k] = Idle
    /\ \A j \in LiveTasks : j < k => sync[j] # Idle
    /\ thread_parent(t) # None
    /\ is_monitored_channel(thread_parent(t)[1])
    /\ sync' = [sync EXCEPT ![k] = Invocation(t)]
    /\ UNCHANGED <<store, remote, phase, runs, bf, history, reverse, clock, poller>>

\* handler.rs 59-74: the result is logged and the task ends.
thread_create_return(k) ==
    /\ Returned(k)
    /\ sync' = [sync EXCEPT ![k] = Idle]
    /\ UNCHANGED <<store, remote, phase, runs, bf, history, reverse, clock, poller>>

(***************************************************************************)
(* run_backfill and backfill_channel.                                      *)
(***************************************************************************)
\* The opposite order, newest thread first.
RECURSIVE sort_descending(_)
sort_descending(S) ==
    IF S = {} THEN <<>>
    ELSE LET m == CHOOSE x \in S : \A y \in S : x >= y
         IN  <<m>> \o sort_descending(S \ {m})

\* backfill.rs 81-93: threads of the forum channel, sorted by id.
RECURSIVE sort_by_key(_)
sort_by_key(S) ==
    IF S = {} THEN <<>>
    ELSE LET m == CHOOSE x \in S : \A y \in S : x <= y
         IN  <<m>> \o sort_by_key(S \ {m})

\* backfill.rs 95-99: threads.retain(|t| t.id.get() > cursor_id)
retain_after(threads, resume_after) ==
    IF resume_after = None THEN threads
    ELSE SelectSeq(threads, LAMBDA t : t > parse_or_zero(resume_after[1]))

\* backfill.rs 71-99: the thread list backfill_channel iterates over.
threads_to_backfill(active_threads, state, channel_id) ==
    LET row == state[to_string(channel_id)]
        resume_after == IF row # None THEN row[1].last_thread_id ELSE None
    IN  retain_after(sort_by_key({t \in active_threads : parent_id(t) = channel_id}),
                     resume_after)

NextChannel == [pc |-> "run", ci |-> bf.ci + 1, threads |-> <<>>]
BfDone == [pc |-> "done", ci |-> 0, threads |-> <<>>]

\* run_backfill 21-22: `if let Some(state) = .. { if state.completed {`
NeverCompleted(row) == FALSE

is_completed(row) == row # None /\ row[1].completed

\* run_backfill 17-36 and backfill_channel 60-104, up to the thread loop.
RunBackfillChannel ==
    /\ phase = "backfill"
    /\ bf.pc = "run"
    /\ bf.ci <= Len(channels)
    /\ LET channel_id == channels[bf.ci]
           row == backfill_state[to_string(channel_id)]
       IN  \/ \* line 21: get_backfill_state(..).await? fails: run_backfill returns Err
              bf' = BfDone
           \/ \* lines 22-30: already completed, continue
              /\ is_completed(row)
              /\ bf' = NextChannel
           \/ \* lines 72, 79: get_backfill_state or get_active_threads fails:
              \* backfill_channel returns Err, logged at 47-53
              /\ ~is_completed(row)
              /\ bf' = NextChannel
           \/ /\ ~is_completed(row)
              /\ bf' = [pc |-> "loop", ci |-> bf.ci,
                        threads |-> threads_to_backfill(guild, backfill_state, channel_id)]
    /\ UNCHANGED <<store, remote, phase, runs, sync, history, reverse, clock, poller>>

\* backfill_channel 107-117: the head of the loop, or its end and
\* run_backfill 38-46.
BackfillChannelLoop ==
    /\ phase = "backfill"
    /\ bf.pc = "loop"
    /\ LET channel_str == to_string(channels[bf.ci])
       IN  IF bf.threads = <<>>
           THEN \* Ok(synced); upsert_backfill_state(.., true, None).await?
                /\ \E db_ok \in BOOLEAN :
                     IF db_ok
                     THEN /\ backfill_state' =
                               upsert_backfill_state(backfill_state, channel_str, TRUE, None)
                          /\ bf' = NextChannel
                     ELSE /\ backfill_state' = backfill_state
                          /\ bf' = BfDone
                /\ UNCHANGED <<sync, calls>>
           ELSE LET thread == Head(bf.threads)
                IN  /\ backfill_state' = backfill_state
                    /\ \/ \* line 111: get_mapping_by_discord_thread(..).await? fails
                          /\ bf' = NextChannel
                          /\ UNCHANGED <<sync, calls>>
                       \/ \* lines 110-115: already synced, continue
                          /\ already_synced(sync_mappings, thread)
                          /\ bf' = [bf EXCEPT !.threads = Tail(bf.threads)]
                          /\ UNCHANGED <<sync, calls>>
                       \/ \* line 117: sync_discord_to_linear(..)
                          /\ ~already_synced(sync_mappings, thread)
                          /\ bf' = [bf EXCEPT !.pc = "sync"]
                          /\ sync' = [sync EXCEPT ![0] = Invocation(thread)]
                          /\ calls' = Append(calls, thread)
    /\ UNCHANGED <<sync_mappings, remote, phase, runs, snap, failed, results, mirrored, say_failed, reverse, clock, poller>>

\* backfill_channel 117-135: the result of Forward Sync.
BackfillAfterSync ==
    /\ phase = "backfill"
    /\ bf.pc = "sync"
    /\ Returned(0)
    /\ sync' = [sync EXCEPT ![0] = Idle]
    /\ LET channel_str == to_string(channels[bf.ci])
           thread == Head(bf.threads)
       IN  IF sync[0].pc = "ok"
           THEN \* line 121: upsert_backfill_state(.., false, Some(&thread_id)).await?
                /\ \E db_ok \in BOOLEAN :
                     IF db_ok
                     THEN /\ backfill_state' =
                               upsert_backfill_state(backfill_state, channel_str, FALSE,
                                                     Some(to_string(thread)))
                          /\ bf' = [bf EXCEPT !.pc = "loop", !.threads = Tail(bf.threads)]
                     ELSE /\ backfill_state' = backfill_state
                          /\ bf' = NextChannel
                /\ failed' = failed
           ELSE \* lines 123-130: logged, continue
                /\ backfill_state' = backfill_state
                /\ bf' = [bf EXCEPT !.pc = "loop", !.threads = Tail(bf.threads)]
                /\ failed' = failed \cup {thread}
    /\ UNCHANGED <<sync_mappings, remote, phase, runs, calls, snap, results, mirrored, say_failed, reverse, clock, poller>>

\* run_backfill 57: all channels visited, Ok(())
RunBackfillReturn ==
    /\ phase = "backfill"
    /\ bf.pc = "run"
    /\ bf.ci > Len(channels)
    /\ bf' = BfDone
    /\ UNCHANGED <<store, remote, phase, runs, sync, history, reverse, clock, poller>>

(***************************************************************************)
(* main                                                                    *)
(***************************************************************************)
\* main.rs 78-106: run_backfill has returned (Ok or Err); the gateway starts.
MainStartLive ==
    /\ phase = "backfill"
    /\ bf.pc = "done"
    /\ phase' = "live"
    /\ poller' = PollerStarted(clock)
    /\ UNCHANGED <<store, remote, runs, bf, sync, history, reverse, clock>>

\* The process is killed and started again: the store, the tracker and the
\* chat keep their state, every task is gone, main starts over.
Crash ==
    /\ runs < MaxRuns
    /\ runs' = runs + 1
    /\ phase' = "backfill"
    /\ bf' = BfStart
    /\ sync' = [k \in Tasks |-> Idle]
    /\ calls' = <<>>
    /\ snap' = Snapshot(sync_mappings, backfill_state, issues)
    /\ poller' = PollerOff
    /\ mirrored' = [k \in Tasks |-> <<>>]
    /\ UNCHANGED <<store, remote, failed, results, say_failed, reverse, clock>>

Next ==
    \/ \E k \in Tasks : SyncCheckMapping(k)
    \/ \E k \in Tasks : SyncFetchFirstMessage(k)
    \/ \E k \in Tasks : SyncUploadAttachment(k)
    \/ \E k \in Tasks : SyncCreateIssue(k)
    \/ \E k \in Tasks : SyncCreateMapping(k)
    \/ \E k \in Tasks : SyncSayConfirmation(k)
    \/ \E k \in LiveTasks, t \in guild : thread_create(k, t)
    \/ \E k \in LiveTasks : thread_create_return(k)
    \/ RunBackfillChannel
    \/ BackfillChannelLoop
    \/ BackfillAfterSync
    \/ RunBackfillReturn
    \/ MainStartLive
    \/ Crash

Spec == Init /\ [][Next]_vars

(***************************************************************************)
(* Forward Sync invoked on a thread again and again, each invocation after  *)
(* the previous one has returned: the gateway delivers one event at a time *)
(* to a process whose backfill could not list the threads.                 *)
(***************************************************************************)
\* The forum tags and the first message's files of the threads.
TagLists == {<<>>, <<2, 1>>, <<1, 3, 2>>}
AttachmentLists == {<<>>, <<"a.png", "b.png">>}

InitSeq ==
    /\ InitEmpty
    /\ guild = RecentThreadIds
    /\ message_race = TRUE
    /\ applied_tags \in TagLists
    /\ attachments \in AttachmentLists
    /\ phase = "live"
    /\ bf = BfDone
    /\ poller = PollerStarted(0)

\* handler.rs 33-65, with no other invocation in flight.
SeqInvoke(t) ==
    /\ \A k \in Tasks : sync[k] = Idle
    /\ Len(results[t]) < MaxCalls
    /\ thread_create(1, t)

\* sync_discord_to_linear called on a thread that has no parent channel (the
\* handler and the backfill never do: lines 28-30 are its own defence).
SeqInvokeDetached ==
    /\ \A k \in Tasks : sync[k] = Idle
    /\ Len(results[DetachedThread]) < MaxCalls
    /\ sync' = [sync EXCEPT ![1] = Invocation(DetachedThread)]
    /\ UNCHANGED <<store, remote, phase, runs, bf, history, reverse, clock, poller>>

\* handler.rs 59-74, the result recorded.
SeqReturn ==
    /\ Returned(1)
    /\ sync' = [sync EXCEPT ![1] = Idle]
    /\ results' = [results EXCEPT ![sync[1].thread] = Append(@, sync[1].pc)]
    /\ UNCHANGED <<store, remote, phase, runs, bf, calls, snap, failed, mirrored, say_failed, reverse, clock, poller>>

NextSeq ==
    \/ \E t \in guild : SeqInvoke(t)
    \/ SeqInvokeDetached
    \/ SyncCheckMapping(1)
    \/ SyncFetchFirstMessage(1)
    \/ SyncUploadAttachment(1)
    \/ SyncCreateIssue(1)
    \/ SyncCreateMapping(1)
    \/ SyncSayConfirmation(1)
    \/ SeqReturn

SpecSeq == InitSeq /\ [][NextSeq]_vars

(***************************************************************************)
(* The tracker's side: users change issues and write comments.  The poller *)
(* reads issues in get_updated_issues and comments in get_issue_comments   *)
(* only, and a change made between two reads is seen by the later one: the *)
(* changes are taken right before a read, or while the poller sleeps.      *)
(***************************************************************************)
\* An issue is updated (its status set, possibly to the same value).
IssueUpdated(i, status_name) ==
    /\ poller.pc \in {"sleep", "fetch"}
    /\ clock < MaxClock
    /\ clock' = clock + 1
    /\ issues' = [issues EXCEPT ![i].status_name = status_name,
                                ![i].updated_at = clock + 1]
    /\ UNCHANGED <<forward, reverse, poller>>

CommentCount == LET RECURSIVE total(_)
                    total(n) == IF n = 0 THEN 0 ELSE Len(issues[n].comments) + total(n - 1)
                IN  total(Len(issues))

\* A comment is written on an issue; comment ids are <<issue, number>>.
CommentCreated(i) ==
    /\ poller.pc \in {"sleep", "comments"}
    /\ CommentCount < MaxComments
    /\ issues' = [issues EXCEPT ![i].comments =
                     Append(@, <<i, Len(issues[i].comments) + 1>>)]
    /\ UNCHANGED <<forward, reverse, clock, poller>>

(***************************************************************************)
(* LinearClient                                                            *)
(***************************************************************************)
\* get_updated_issues: the team's issues with updatedAt > since, as
\* LinearIssueStatus {id, status_name}.
get_updated_issues(all, team_id, since) ==
    LET ids == {i \in 1..Len(all) :
                  /\ linear_team_id(parent_id(all[i].thread)) = team_id
                  /\ all[i].updated_at > since}
        list == sorted(ids)
    IN  [n \in 1..Len(list) |-> [id |-> list[n], status_name |-> all[list[n]].status_name]]

\* get_issue_comments: the issue's comments ordered by createdAt.
get_issue_comments(all, issue_id) == all[issue_id].comments

(***************************************************************************)
(* db.rs, the reverse direction's tables.                                  *)
(***************************************************************************)
\* get_cached_status
get_cached_status(cache, linear_issue_id) == cache[linear_issue_id]

\* A write that stores "Done" whatever status it is given.
upsert_done(cache, linear_issue_id, status_name) ==
    [cache EXCEPT ![linear_issue_id] = Some("Done")]

\* upsert_cached_status: INSERT ... ON CONFLICT(linear_issue_id) DO UPDATE
upsert_cached_status(cache, linear_issue_id, status_name) ==
    [cache EXCEPT ![linear_issue_id] = Some(status_name)]

\* is_comment_synced
is_comment_synced(rows, linear_comment_id) ==
    \E r \in rows : r.linear_comment_id = linear_comment_id

\* An insert that records the issue's second comment whatever it is given.
insert_second_comment(rows, linear_comment_id, linear_issue_id) ==
    rows \cup {[linear_comment_id |-> <<linear_issue_id, 2>>,
                linear_issue_id |-> linear_issue_id]}

\* insert_synced_comment
insert_synced_comment(rows, linear_comment_id, linear_issue_id) ==
    rows \cup {[linear_comment_id |-> linear_comment_id,
                linear_issue_id |-> linear_issue_id]}

(***************************************************************************)
(* run_poller                                                              *)
(***************************************************************************)
\* The issue being processed: `issue` of the loop at poller.rs 45.
issue == Head(poller.queue)

\* A loop left at the first failure: the rest of the team's list is dropped.
AbandonIssues == [poller EXCEPT !.pc = "issue", !.queue = <<>>,
                                !.comments = <<>>, !.status_changed = FALSE]

\* poller.rs 110: the body of `for issue in &issues` ends, the next one starts.
NextIssue == [poller EXCEPT !.pc = "issue", !.queue = Tail(poller.queue),
                            !.comments = <<>>, !.status_changed = FALSE]

\* poller.rs 27-30: sleep, then `now` and `any_success` of the tick.
PollTick ==
    /\ poller.pc = "sleep"
    /\ clock < MaxClock
    /\ clock' = clock + 1
    /\ poller' = [poller EXCEPT !.pc = "fetch", !.now = clock + 1,
                                !.any_success = FALSE, !.ti = 1]
    /\ fetch_ok' = {}
    /\ UNCHANGED <<forward, issues, linear_status_cache, synced_comments,
                   status_messages, comment_messages, failed_since, sync_failed>>

\* poller.rs 32-43, 112-114: get_updated_issues for the next team.
PollFetch ==
    /\ poller.pc = "fetch"
    /\ poller.ti <= Len(unique_team_ids)
    /\ LET team_id == unique_team_ids[poller.ti]
       IN  \/ /\ poller' = [poller EXCEPT !.pc = "issue", !.any_success = TRUE,
                               !.queue = get_updated_issues(issues, team_id, poller.last_poll)]
              /\ fetch_ok' = fetch_ok \cup {team_id}
              /\ failed_since' = [failed_since EXCEPT ![team_id] = None]
           \/ /\ poller' = [poller EXCEPT !.ti = poller.ti + 1]
              /\ fetch_ok' = fetch_ok
              /\ failed_since' = [failed_since EXCEPT ![team_id] = Some(poller.last_poll)]
    /\ UNCHANGED <<forward, issues, linear_status_cache, synced_comments,
                   status_messages, comment_messages, sync_failed, clock>>

\* poller.rs 45: the team's issue list is exhausted.
PollNextTeam ==
    /\ poller.pc = "issue"
    /\ poller.queue = <<>>
    /\ poller' = [poller EXCEPT !.pc = "fetch", !.ti = poller.ti + 1]
    /\ UNCHANGED <<forward, issues, reverse, clock>>

\* poller.rs 46-54: only issues with a mapping are processed.
AlwaysTracked(rows, linear_issue_id) == TRUE

is_tracked(rows, linear_issue_id) ==
    get_mapping_by_linear_issue(rows, linear_issue_id) # {}

PollLookupMapping ==
    /\ poller.pc = "issue"
    /\ poller.queue # <<>>
    /\ \E db_ok \in BOOLEAN :
         IF db_ok /\ is_tracked(sync_mappings, issue.id)
         THEN /\ poller' = [poller EXCEPT !.pc = "status"]
              /\ sync_failed' = sync_failed \ {issue.id}
         ELSE /\ poller' = NextIssue
              /\ sync_failed' = sync_failed
    /\ UNCHANGED <<forward, issues, linear_status_cache, synced_comments,
                   status_messages, comment_messages, fetch_ok, failed_since, clock>>

\* poller.rs 57-68: status_changed
AlwaysChanged(cached, status_name) == TRUE

status_changed(cached, status_name) ==
    IF cached \in {Some(name) : name \in StatusNames} /\ cached[1] = status_name
    THEN FALSE
    ELSE TRUE

\* poller.rs 56-70: get_cached_status and the comparison.
PollCheckStatus ==
    /\ poller.pc = "status"
    /\ \E db_ok \in BOOLEAN :
         LET changed == IF db_ok
                        THEN status_changed(get_cached_status(linear_status_cache, issue.id),
                                            issue.status_name)
                        ELSE FALSE
         IN  poller' = [poller EXCEPT !.status_changed = changed,
                                      !.pc = IF changed THEN "status_lookup" ELSE "comments"]
    /\ UNCHANGED <<forward, issues, reverse, clock>>

(***************************************************************************)
(* sync_linear_to_discord (Reverse Status Sync)                            *)
(***************************************************************************)
\* A loop body that ends at the status sync.
skip_to_next_issue(p) == [p EXCEPT !.pc = "issue", !.queue = Tail(p.queue),
                                   !.comments = <<>>, !.status_changed = FALSE]

\* poller.rs 77-92: sync_linear_to_discord has returned; an Err is logged and
\* the loop body goes on to the comments.
status_sync_returned(p) == [p EXCEPT !.pc = "comments"]

\* linear_to_discord.rs 16-25: the mapping and its thread id.
StatusSyncLookup ==
    /\ poller.pc = "status_lookup"
    /\ \E db_ok \in BOOLEAN :
         IF db_ok /\ get_mapping_by_linear_issue(sync_mappings, issue.id) # {}
         THEN /\ poller' = [poller EXCEPT !.pc = "status_say"]
              /\ sync_failed' = sync_failed
         ELSE /\ poller' = status_sync_returned(poller)
              /\ sync_failed' = sync_failed \cup {issue.id}
    /\ UNCHANGED <<forward, issues, linear_status_cache, synced_comments,
                   status_messages, comment_messages, fetch_ok, failed_since, clock>>

\* The thread a mapped issue's messages go to: mapping.discord_thread_id.parse()
mapped_thread(rows, linear_issue_id) ==
    LET mapping == CHOOSE m \in get_mapping_by_linear_issue(rows, linear_issue_id) : TRUE
    IN  digits_value(mapping.discord_thread_id)

\* linear_to_discord.rs 27-30: channel.say(http, &message).await?
StatusSyncSay ==
    /\ poller.pc = "status_say"
    /\ \E discord_ok \in BOOLEAN :
         IF discord_ok
         THEN /\ status_messages' = Append(status_messages,
                    [thread |-> mapped_thread(sync_mappings, issue.id),
                     issue |-> issue.id, status_name |-> issue.status_name])
              /\ poller' = [poller EXCEPT !.pc = "status_upsert"]
              /\ sync_failed' = sync_failed
         ELSE /\ status_messages' = status_messages
              /\ poller' = status_sync_returned(poller)
              /\ sync_failed' = sync_failed \cup {issue.id}
    /\ UNCHANGED <<forward, issues, linear_status_cache, synced_comments,
                   comment_messages, fetch_ok, failed_since, clock>>

\* linear_to_discord.rs 32-33: upsert_cached_status(..).await?
StatusSyncUpsert ==
    /\ poller.pc = "status_upsert"
    /\ \E db_ok \in BOOLEAN :
         IF db_ok
         THEN /\ linear_status_cache' =
                    upsert_cached_status(linear_status_cache, issue.id, issue.status_name)
              /\ sync_failed' = sync_failed
         ELSE /\ linear_status_cache' = linear_status_cache
              /\ sync_failed' = sync_failed \cup {issue.id}
    /\ poller' = status_sync_returned(poller)
    /\ UNCHANGED <<forward, issues, synced_comments, status_messages,
                   comment_messages, fetch_ok, failed_since, clock>>

(***************************************************************************)
(* sync_linear_comments_to_discord (Reverse Comment Sync)                  *)
(***************************************************************************)
\* linear_to_discord.rs 52-63: the mapping, then get_issue_comments.
CommentSyncStart ==
    /\ poller.pc = "comments"
    /\ \/ \* a store error, no mapping, or get_issue_comments fails: return
          /\ poller' = NextIssue
          /\ sync_failed' = IF get_mapping_by_linear_issue(sync_mappings, issue.id) # {}
                            THEN sync_failed \cup {issue.id} ELSE sync_failed
       \/ /\ get_mapping_by_linear_issue(sync_mappings, issue.id) # {}
          /\ poller' = [poller EXCEPT !.pc = "comment_check",
                                      !.comments = get_issue_comments(issues, issue.id)]
          /\ sync_failed' = sync_failed
    /\ UNCHANGED <<forward, issues, linear_status_cache, synced_comments,
                   status_messages, comment_messages, fetch_ok, failed_since, clock>>

\* linear_to_discord.rs 65-77: is_comment_synced for the next comment, or Ok(()).
CommentCheck ==
    /\ poller.pc = "comment_check"
    /\ IF poller.comments = <<>>
       THEN poller' = NextIssue
       ELSE \E db_ok \in BOOLEAN :
              poller' = IF db_ok /\ ~is_comment_synced(synced_comments, Head(poller.comments))
                        THEN [poller EXCEPT !.pc = "comment_say"]
                        ELSE [poller EXCEPT !.comments = Tail(poller.comments)]
    /\ UNCHANGED <<forward, issues, reverse, clock>>

\* linear_to_discord.rs 79-86: channel.say(http, &message).await?
CommentSay ==
    /\ poller.pc = "comment_say"
    /\ \E discord_ok \in BOOLEAN :
         IF discord_ok
         THEN /\ comment_messages' = Append(comment_messages,
                    [thread |-> mapped_thread(sync_mappings, issue.id),
                     comment |-> Head(poller.comments)])
              /\ poller' = [poller EXCEPT !.pc = "comment_insert"]
              /\ sync_failed' = sync_failed
         ELSE /\ comment_messages' = comment_messages
              /\ poller' = NextIssue
              /\ sync_failed' = sync_failed \cup {issue.id}
    /\ UNCHANGED <<forward, issues, linear_status_cache, synced_comments,
                   status_messages, fetch_ok, failed_since, clock>>

\* linear_to_discord.rs 88-94: insert_synced_comment(..).await?
CommentInsert ==
    /\ poller.pc = "comment_insert"
    /\ \E db_ok \in BOOLEAN :
         IF db_ok
         THEN /\ synced_comments' = insert_synced_comment(synced_comments,
                                        Head(poller.comments), issue.id)
              /\ poller' = [poller EXCEPT !.pc = "comment_check",
                                          !.comments = Tail(poller.comments)]
              /\ sync_failed' = sync_failed
         ELSE /\ synced_comments' = synced_comments
              /\ poller' = NextIssue
              /\ sync_failed' = sync_failed \cup {issue.id}
    /\ UNCHANGED <<forward, issues, linear_status_cache, status_messages,
                   comment_messages, fetch_ok, failed_since, clock>>

\* poller.rs 118-121: the cursor after the tick.
AlwaysAdvance(last_poll, now, any_success) == now

\* A cursor set to a time after the one captured when the tick started.
advance_past_now(last_poll, now, any_success) ==
    IF any_success THEN now + 1 ELSE last_poll

advance_cursor(last_poll, now, any_success) ==
    IF any_success THEN now ELSE last_poll

PollEndTick ==
    /\ poller.pc = "fetch"
    /\ poller.ti > Len(unique_team_ids)
    /\ poller' = [poller EXCEPT !.pc = "sleep", !.now = 0, !.any_success = FALSE, !.ti = 0,
                                !.last_poll = advance_cursor(poller.last_poll, poller.now,
                                                             poller.any_success)]
    /\ UNCHANGED <<forward, issues, reverse, clock>>

(***************************************************************************)
(* The poller's behaviours: the process is live, three issues exist (two   *)
(* for one thread, after a race or a failed mapping write; one of them and *)
(* the third are mapped), and the tracker's users change them.             *)
(***************************************************************************)
ThreadA == CHOOSE t \in ThreadIds : parent_id(t) = 1
ThreadB == CHOOSE t \in ThreadIds : parent_id(t) = 2

InitPoller ==
    /\ guild = ThreadIds
    /\ message_race = FALSE
    /\ applied_tags = <<>>
    /\ attachments = <<>>
    /\ issues = <<NewIssue(ThreadA, 0, content, label_ids(1, <<>>), <<>>),
                 NewIssue(ThreadB, 0, content, label_ids(2, <<>>), <<>>),
                 NewIssue(ThreadA, 0, content, label_ids(1, <<>>), <<>>)>>
    /\ sync_mappings = {[discord_thread_id |-> to_string(ThreadA), linear_issue_id |-> 1],
                        [discord_thread_id |-> to_string(ThreadB), linear_issue_id |-> 2]}
    /\ confirmations = {[thread |-> ThreadA, issue |-> 1], [thread |-> ThreadB, issue |-> 2]}
    /\ backfill_state = [c \in ChannelKeys |->
                            Some([completed |-> TRUE, last_thread_id |-> None])]
    /\ phase = "live"
    /\ runs = 1
    /\ bf = BfDone
    /\ sync = [k \in Tasks |-> Idle]
    /\ calls = <<>>
    /\ snap = Snapshot({}, [c \in ChannelKeys |-> None], <<>>)
    /\ failed = {}
    /\ results = [t \in AllThreads |-> <<>>]
    /\ mirrored = [k \in Tasks |-> <<>>]
    /\ say_failed = {}
    /\ linear_status_cache = [i \in IssueIds |-> None]
    /\ synced_comments = {}
    /\ status_messages = <<>>
    /\ comment_messages = <<>>
    /\ clock = 0
    /\ poller = PollerStarted(0)
    /\ fetch_ok = {}
    /\ failed_since = [team \in Teams |-> None]
    /\ sync_failed = {}

NextPoller ==
    \/ \E i \in 1..Len(issues), status_name \in StatusNames : IssueUpdated(i, status_name)
    \/ \E i \in 1..Len(issues) : CommentCreated(i)
    \/ PollTick
    \/ PollFetch
    \/ PollNextTeam
    \/ PollLookupMapping
    \/ PollCheckStatus
    \/ StatusSyncLookup
    \/ StatusSyncSay
    \/ StatusSyncUpsert
    \/ CommentSyncStart
    \/ CommentCheck
    \/ CommentSay
    \/ CommentInsert
    \/ PollEndTick

SpecPoller == InitPoller /\ [][NextPoller]_vars

(***************************************************************************)
(* The two reverse operations called for any issue id and status, as their *)
(* signatures allow: sync_linear_to_discord, then                          *)
(* sync_linear_comments_to_discord, each call after the previous returned. *)
(* Issue 1 carries two comments and the unmapped issue 3 one.               *)
(***************************************************************************)
Caller == [PollerOff EXCEPT !.pc = "caller"]

InitCalls ==
    /\ guild = ThreadIds
    /\ message_race = FALSE
    /\ applied_tags = <<>>
    /\ attachments = <<>>
    /\ issues = <<[NewIssue(ThreadA, 0, content, label_ids(1, <<>>), <<>>)
                    EXCEPT !.comments = <<<<1, 1>>, <<1, 2>>>>],
                 NewIssue(ThreadB, 0, content, label_ids(2, <<>>), <<>>),
                 [NewIssue(ThreadA, 0, content, label_ids(1, <<>>), <<>>)
                    EXCEPT !.comments = <<<<3, 1>>>>]>>
    /\ sync_mappings = {[discord_thread_id |-> to_string(ThreadA), linear_issue_id |-> 1],
                        [discord_thread_id |-> to_string(ThreadB), linear_issue_id |-> 2]}
    /\ confirmations = {[thread |-> ThreadA, issue |-> 1], [thread |-> ThreadB, issue |-> 2]}
    /\ backfill_state = [c \in ChannelKeys |->
                            Some([completed |-> TRUE, last_thread_id |-> None])]
    /\ phase = "live"
    /\ runs = 1
    /\ bf = BfDone
    /\ sync = [k \in Tasks |-> Idle]
    /\ calls = <<>>
    /\ snap = Snapshot({}, [c \in ChannelKeys |-> None], <<>>)
    /\ failed = {}
    /\ results = [t \in AllThreads |-> <<>>]
    /\ mirrored = [k \in Tasks |-> <<>>]
    /\ say_failed = {}
    /\ linear_status_cache = [i \in IssueIds |-> None]
    /\ synced_comments = {}
    /\ status_messages = <<>>
    /\ comment_messages = <<>>
    /\ clock = 0
    /\ poller = Caller
    /\ fetch_ok = {}
    /\ failed_since = [team \in Teams |-> None]
    /\ sync_failed = {}

\* linear_to_discord.rs 9-15: sync_linear_to_discord(.., linear_issue_id, .., new_status)
CallStatusSync(i, new_status) ==
    /\ poller.pc = "caller"
    /\ clock < MaxClock
    /\ clock' = clock + 1
    /\ poller' = [poller EXCEPT !.pc = "status_lookup",
                                !.queue = <<[id |-> i, status_name |-> new_status]>>]
    /\ sync_failed' = sync_failed \ {i}
    /\ UNCHANGED <<forward, issues, linear_status_cache, synced_comments,
                   status_messages, comment_messages, fetch_ok, failed_since>>

\* Both operations have returned to the caller.
CallReturn ==
    /\ poller.pc = "issue"
    /\ poller.queue = <<>>
    /\ poller' = Caller
    /\ UNCHANGED <<forward, issues, reverse, clock>>

NextCalls ==
    \/ \E i \in 1..Len(issues), new_status \in StatusNames : CallStatusSync(i, new_status)
    \/ StatusSyncLookup
    \/ StatusSyncSay
    \/ StatusSyncUpsert
    \/ CommentSyncStart
    \/ CommentCheck
    \/ CommentSay
    \/ CommentInsert
    \/ CallReturn

SpecCalls == InitCalls /\ [][NextCalls]_vars

\* The process without gateway events: backfill runs and restarts only.
NextBackfill ==
    \/ SyncCheckMapping(0)
    \/ SyncFetchFirstMessage(0)
    \/ SyncUploadAttachment(0)
    \/ SyncCreateIssue(0)
    \/ SyncCreateMapping(0)
    \/ SyncSayConfirmation(0)
    \/ RunBackfillChannel
    \/ BackfillChannelLoop
    \/ BackfillAfterSync
    \/ RunBackfillReturn
    \/ MainStartLive
    \/ Crash

SpecBackfill == InitBackfill /\ [][NextBackfill]_vars

\* main() from its start in a guild with one thread, without gateway events:
\* the backfill, then the poller with the tracker's users, and restarts.
InitMain ==
    /\ InitStore
    /\ guild = {ThreadB}
    /\ message_race = FALSE
    /\ applied_tags = <<>>
    /\ attachments = <<>>

NextMain ==
    \/ NextBackfill
    \/ NextPoller

SpecMain == InitMain /\ [][NextMain]_vars

(***************************************************************************)
(* Properties.  They are stated over the state, not through the operators  *)
(* that model the code.                                                    *)
(***************************************************************************)
\* The issues the tracker holds for thread t.
IssuesFor(t) == {i \in 1..Len(issues) : issues[i].thread = t}

\* The rows of sync_mappings for thread t.
RowsFor(t) == {m \in sync_mappings : m.discord_thread_id = to_string(t)}

RECURSIVE Ascending(_)
Ascending(S) ==
    IF S = {} THEN <<>>
    ELSE LET m == CHOOSE x \in S : \A y \in S : x <= y
         IN  <<m>> \o Ascending(S \ {m})

IsPrefix(s, t) == Len(s) <= Len(t) /\ s = SubSeq(t, 1, Len(s))

\* C1: for every thread, whatever the interleaving of Forward Sync invocations
\* (handler tasks and backfill) and whichever remote or store calls fail, the
\* tracker holds at most one issue created for the thread.
C1_AtMostOneIssuePerThread ==
    \A t \in ThreadIds : Cardinality(IssuesFor(t)) <= 1

\* C2: in every reachable state sync_mappings has at most one row per thread id
\* and at most one row per issue id, also when two Forward Sync invocations on
\* the same thread interleave their check and their insert.
C2_MappingRowsUnique ==
    \A m1, m2 \in sync_mappings :
        (\/ m1.discord_thread_id = m2.discord_thread_id
         \/ m1.linear_issue_id = m2.linear_issue_id) => m1 = m2

\* Two handler tasks raced on one thread: both created an issue, one row was
\* written, the other task's insert was refused.
C2_RaceWitness ==
    \E k1, k2 \in LiveTasks :
        /\ k1 # k2
        /\ sync[k1].thread = sync[k2].thread
        /\ sync[k1].issue # 0 /\ sync[k2].issue # 0
        /\ sync[k1].pc \in {"say", "ok"}
        /\ sync[k2].pc = "err"
        /\ RowsFor(sync[k1].thread) =
              {[discord_thread_id |-> to_string(sync[k1].thread),
                linear_issue_id |-> sync[k1].issue]}

\* C3: Forward Sync invoked twice on a thread, the second invocation after the
\* first has returned, leaves exactly one sync_mappings row and exactly one
\* tracker issue for the thread (stated for the pairs of invocations of which
\* at least one returned success).
C3_TwiceExactlyOne ==
    \A t \in ThreadIds :
        (Len(results[t]) = 2 /\ \E n \in 1..2 : results[t][n] = "ok") =>
            /\ Cardinality(RowsFor(t)) = 1
            /\ Cardinality(IssuesFor(t)) = 1

\* C4: when a sync_mappings row exists for the thread at the moment Forward
\* Sync makes its deduplication check, the invocation returns there (success,
\* or the store's error when the lookup itself fails) and changes nothing: no
\* issue, no row, no confirmation, no other table or message.
C4_MappedCheckHasNoEffect ==
    [][\A k \in Tasks :
          (/\ sync[k].pc = "check"
           /\ RowsFor(sync[k].thread) # {}
           /\ sync'[k].thread = sync[k].thread
           /\ sync'[k].pc # "check")
          => /\ sync'[k].pc \in {"ok", "err"}
             /\ sync'[k].issue = 0
             /\ UNCHANGED <<store, remote, reverse>>]_vars

\* An invocation returned success at the check of a thread that has a row.
C4_SkippedWitness ==
    \E k \in Tasks :
        /\ sync[k].pc = "ok"
        /\ sync[k].issue = 0
        /\ RowsFor(sync[k].thread) # {}

\* C5: the threads of forum channel 1 are T1 < T2 < ...; when a process starts
\* on a store whose cursor for the channel is last_thread_id = T1 with
\* completed = false and T1 is the only mapped thread of the channel, its
\* backfill invokes Forward Sync on the later threads only, in ascending
\* order, on all of them when it gets through the channel, and no further
\* issue is created for T1.
Channel1Threads == {t \in ThreadIds : parent_id(t) = 1}
T1 == CHOOSE t \in Channel1Threads : \A u \in Channel1Threads : t <= u

ResumedAfterT1 ==
    /\ snap.backfill_state[to_string(1)] =
          Some([completed |-> FALSE, last_thread_id |-> Some(to_string(T1))])
    /\ snap.mapped \cap Channel1Threads = {T1}

Channel1Calls == SelectSeq(calls, LAMBDA t : parent_id(t) = 1)

Channel1Completed ==
    /\ backfill_state[to_string(1)] # None
    /\ backfill_state[to_string(1)][1].completed

C5_ResumeSkipsT1 ==
    ResumedAfterT1 =>
        /\ IsPrefix(Channel1Calls, Ascending(Channel1Threads \ {T1}))
        /\ Channel1Completed => Channel1Calls = Ascending(Channel1Threads \ {T1})
        /\ IssuesFor(T1) \subseteq 1..snap.issues

C5_ResumeWitness ==
    /\ ResumedAfterT1
    /\ Channel1Completed
    /\ Len(Channel1Calls) >= 2
    /\ Channel1Calls = Ascending(Channel1Threads \ {T1})

\* C6: while a thread whose Forward Sync failed in a backfill run has no
\* sync_mappings row, its channel's cursor is not advanced to or past it and
\* the channel is not marked completed, so that later runs try it again.
C6_FailedThreadStaysAhead ==
    \A t \in failed :
        RowsFor(t) = {} =>
            LET row == backfill_state[to_string(parent_id(t))]
            IN  \/ row = None
                \/ /\ ~row[1].completed
                   /\ \/ row[1].last_thread_id = None
                      \/ digits_value(row[1].last_thread_id[1]) < t

\* C7: whatever the number of Reverse Comment Sync invocations, the chat
\* message of a comment is posted at most once.
C7_CommentPostedAtMostOnce ==
    \A n, m \in 1..Len(comment_messages) :
        comment_messages[n].comment = comment_messages[m].comment => n = m

\* C8: when the poller handles an issue returned with status S while
\* linear_status_cache holds S for it, no status message is posted, the cache
\* is unchanged and Reverse Status Sync is not entered.
InStatusSync == {"status_lookup", "status_say", "status_upsert"}

TickEnds == poller.pc = "fetch" /\ poller'.pc = "sleep"

C9_CursorAdvancesIffSuccess ==
    [][/\ poller'.last_poll # poller.last_poll => TickEnds
       /\ TickEnds =>
            /\ fetch_ok # {} => poller'.last_poll = poller.now /\ poller.now > poller.last_poll
            /\ fetch_ok = {} => poller'.last_poll = poller.last_poll]_vars

\* A tick has ended in which the fetch of every team failed; the cursor is
\* where it was, behind the clock.
C9_AllFailedWitness ==
    /\ poller.pc = "sleep"
    /\ fetch_ok = {}
    /\ \A team \in Teams : failed_since[team] = Some(poller.last_poll)
    /\ poller.last_poll < clock

\* C10: a team whose fetch failed is queried, the next time, with a `since`
\* that is not later than the one of the failed fetch.
C10_FailedTeamKeepsWindow ==
    (poller.pc = "fetch" /\ poller.ti <= Len(unique_team_ids)) =>
        LET team == unique_team_ids[poller.ti]
        IN  failed_since[team] # None => poller.last_poll <= failed_since[team][1]

\* C11: create_mapping invoked for a thread id that already has a
\* sync_mappings row completes as success (a no-op), not as an error.
C11_DuplicateInsertSucceeds ==
    \A k \in Tasks :
        (sync[k].pc = "create_mapping" /\ RowsFor(sync[k].thread) # {}) =>
            LET r == create_mapping(sync_mappings, to_string(sync[k].thread), sync[k].issue)
            IN  r.ok /\ r.rows = sync_mappings

\* C12: an issue whose status sync or comment sync failed in a poll tick is
\* processed again on the next tick, also when the tracker does not modify it
\* again: when the tick is over the issue is still inside the window of the
\* next fetch (updated after the cursor).
C12_FailedIssueStaysInWindow ==
    poller.pc = "sleep" =>
        \A i \in sync_failed : issues[i].updated_at > poller.last_poll

\* C13: a failure at a step of run_backfill or backfill_channel, of the store
\* or of a remote service, does not keep the remaining threads of the channel
\* or the remaining channels from being processed in the same run: the run
\* does not end while channels remain, and the thread loop does not leave the
\* channel while threads remain after the current one.
C13_BackfillIsolatesFailures ==
    [][(phase = "backfill" /\ runs' = runs) =>
          /\ (bf.pc \in {"run", "loop", "sync"} /\ bf.ci < Len(channels))
                => bf'.pc # "done"
          /\ (bf.pc \in {"loop", "sync"} /\ Len(bf.threads) >= 2)
                => /\ bf'.ci = bf.ci
                   /\ bf'.threads \in {bf.threads, Tail(bf.threads)}]_vars

\* The row of a channel says completed.
Completed(state, c) == state[c] # None /\ state[c][1].completed

\* C14: a channel's backfill_state row becomes completed only by the step that
\* ends backfill_channel's loop over the whole filtered thread list with Ok,
\* and that step marks it (unless the store refuses the write, which ends the
\* run); a channel-level error leaves the row as it was, not completed, and a
\* later run does not skip the channel.
C14_CompletedExactlyAfterFullList ==
    [][(phase = "backfill" /\ runs' = runs /\ bf' # bf) =>
          IF bf.ci \notin 1..Len(channels)
          THEN backfill_state' = backfill_state
          ELSE
          LET c == to_string(channels[bf.ci])
              list_done == bf.pc = "loop" /\ bf.threads = <<>>
          IN  /\ \A d \in ChannelKeys :
                    (Completed(backfill_state', d) /\ ~Completed(backfill_state, d))
                        => (list_done /\ d = c)
              /\ list_done =>
                    \/ Completed(backfill_state', c) /\ bf' = NextChannel
                    \/ backfill_state' = backfill_state /\ bf'.pc = "done"
              /\ (~list_done /\ bf'.ci # bf.ci /\ ~Completed(backfill_state, c))
                    => /\ ~Completed(backfill_state', c)
                       /\ bf.pc = "run" => backfill_state' = backfill_state
              /\ (bf.pc = "run" /\ ~Completed(backfill_state, c))
                    => ENABLED (RunBackfillChannel /\ bf'.pc = "loop")]_vars

\* A run went through both channels: channel 1 was listed to its end and is
\* completed, channel 2 ended with a channel-level error and is not.
C14_OneCompletedOneFailed ==
    /\ phase = "backfill"
    /\ bf.pc = "run"
    /\ bf.ci > Len(channels)
    /\ Completed(backfill_state, to_string(1))
    /\ ~Completed(backfill_state, to_string(2))

\* C15: a backfill run skips a channel whose backfill_state row says
\* completed: it lists no threads, invokes Forward Sync on no thread of the
\* channel, and leaves the row and the sync_mappings rows as they are.
C15_CompletedChannelSkipped ==
    [][/\ (/\ phase = "backfill" /\ runs' = runs /\ bf' # bf
           /\ bf.pc = "run" /\ bf.ci \in 1..Len(channels)
           /\ Completed(backfill_state, to_string(channels[bf.ci])))
          => /\ bf'.pc \in {"run", "done"}
             /\ bf'.threads = <<>>
             /\ UNCHANGED <<store, remote, sync, calls>>
       /\ \A n \in 1..Len(calls) :
             ~Completed(snap.backfill_state, to_string(parent_id(calls[n])))]_vars

\* A restarted process found channel 1 completed and channel 2 not, went past
\* channel 1 and is in the thread loop of channel 2.
C15_SkippedWitness ==
    /\ runs = 2
    /\ Completed(snap.backfill_state, to_string(1))
    /\ ~Completed(snap.backfill_state, to_string(2))
    /\ phase = "backfill"
    /\ bf.pc = "loop"
    /\ bf.ci = 2

\* C16: once a status message for an issue's status S has been posted, the
\* cache holds S and a later tick that returns S again posts nothing: between
\* two status messages of an issue with the same status there is one with
\* another status.
C16_StatusPostedOncePerChange ==
    \A n, m \in 1..Len(status_messages) :
        (/\ n < m
         /\ status_messages[n].issue = status_messages[m].issue
         /\ status_messages[n].status_name = status_messages[m].status_name)
        => \E k \in (n + 1)..(m - 1) :
              /\ status_messages[k].issue = status_messages[n].issue
              /\ status_messages[k].status_name # status_messages[n].status_name

\* The issue has a sync_mappings row.
Tracked(i) == \E m \in sync_mappings : m.linear_issue_id = i

\* The issue a comment id belongs to.
CommentIssue(c) == c[1]

\* C17: an issue returned by a fetch that has no sync_mappings row is skipped:
\* the poller goes to the next issue of the list, posts no status message and
\* no comment message for it, fetches no comment list and writes neither
\* linear_status_cache nor synced_comments.
C17_UnmappedIssueSkipped ==
    [][/\ (/\ poller.pc = "issue" /\ poller.queue # <<>>
           /\ ~Tracked(Head(poller.queue).id)
           /\ poller' # poller)
          => /\ poller'.pc = "issue"
             /\ poller'.queue = Tail(poller.queue)
             /\ UNCHANGED <<linear_status_cache, synced_comments,
                             status_messages, comment_messages>>
       /\ poller.pc \in {"status", "status_lookup", "status_say", "status_upsert",
                          "comments", "comment_check", "comment_say", "comment_insert"}
          => Tracked(Head(poller.queue).id)
       /\ \A n \in 1..Len(status_messages) : Tracked(status_messages[n].issue)
       /\ \A n \in 1..Len(comment_messages) :
             Tracked(CommentIssue(comment_messages[n].comment))]_vars

\* The unmapped issue 3 was updated at time 1 and returned by team 1's fetch
\* in the tick at time 2; the tick is over.
C17_UnmappedFetchedWitness ==
    /\ ~Tracked(3)
    /\ issues[3].updated_at = 1
    /\ poller.pc = "sleep"
    /\ poller.last_poll = 2
    /\ linear_team_id(parent_id(issues[3].thread)) \in fetch_ok
    /\ linear_status_cache[3] = None

\* C18: for every mapped issue of a fetched list the poller invokes Reverse
\* Comment Sync in the same tick whatever the status outcome: every step from
\* the status comparison or from inside Reverse Status Sync stays on the same
\* issue and leads to Reverse Status Sync's next step or to the invocation of
\* Reverse Comment Sync, which is then possible.
C18_CommentSyncAfterAnyStatusOutcome ==
    [][/\ (poller.pc \in {"status"} \cup InStatusSync /\ poller' # poller)
          => /\ poller'.pc \in InStatusSync \cup {"comments"}
             /\ poller'.queue = poller.queue
             /\ poller'.now = poller.now
       /\ poller.pc = "comments" => ENABLED CommentSyncStart]_vars

\* Reverse Status Sync failed for the issue of this iteration, and the poller
\* is at the invocation of Reverse Comment Sync for it.
C18_AfterFailedStatusWitness ==
    /\ poller.pc = "comments"
    /\ poller.status_changed
    /\ Head(poller.queue).id \in sync_failed
    /\ linear_status_cache[Head(poller.queue).id] # Some(Head(poller.queue).status_name)

\* The steps of run_poller.
PollerStep ==
    \/ PollTick \/ PollFetch \/ PollNextTeam \/ PollLookupMapping \/ PollCheckStatus
    \/ StatusSyncLookup \/ StatusSyncSay \/ StatusSyncUpsert
    \/ CommentSyncStart \/ CommentCheck \/ CommentSay \/ CommentInsert \/ PollEndTick

\* C19: within a tick no failure keeps the remaining issues of a team's list
\* or the remaining teams from being processed, and none ends the loop: a step
\* on an issue leaves the list as it is or moves to its next issue, the team
\* is left only when its list is exhausted, the tick ends only after the last
\* team, and the poller always has a next step (up to the time the model
\* covers).
C19_PollerIsolatesFailures ==
    [][/\ (poller.pc \notin {"off", "sleep", "fetch"} /\ poller' # poller)
          => /\ \/ poller'.queue = poller.queue
                \/ poller.queue # <<>> /\ poller'.queue = Tail(poller.queue)
             /\ poller'.pc # "sleep"
             /\ \/ poller'.ti = poller.ti /\ poller'.pc # "fetch"
                \/ /\ poller.pc = "issue" /\ poller.queue = <<>>
                   /\ poller'.ti = poller.ti + 1 /\ poller'.pc = "fetch"
       /\ (poller.pc = "fetch" /\ poller.ti <= Len(unique_team_ids) /\ poller' # poller)
          => \/ poller'.pc = "issue" /\ poller'.ti = poller.ti
             \/ poller'.pc = "fetch" /\ poller'.ti = poller.ti + 1
       /\ (poller.pc \notin {"off", "sleep"} \/ clock < MaxClock) => ENABLED PollerStep]_vars

\* In one tick issue 1 failed (its mapping lookup, status sync or comment
\* sync) and the poller is at the next issue of the same list.
C19_NextIssueAfterFailureWitness ==
    /\ poller.pc = "issue"
    /\ poller.queue # <<>>
    /\ Head(poller.queue).id = 3
    /\ 1 \in sync_failed
    /\ issues[1].updated_at > poller.last_poll

\* C20: Forward Sync makes at most 3 attempts to fetch the first message; an
\* attempt that brings no message (empty list or error) is followed by another
\* attempt or, after the third, by the rest of the operation (the attachment
\* loop, which has no turn without a message, then the creation of the issue),
\* never by the failure of Forward Sync; and an issue created without a first
\* message has the placeholder body.
C20_ThreeAttemptsThenPlaceholder ==
    [][\A k \in Tasks :
          /\ sync[k].attempt < 3
          /\ (sync[k].pc = "fetch" /\ sync'[k] # sync[k] /\ runs' = runs)
                => \/ /\ sync'[k].pc = "fetch"
                      /\ sync'[k].attempt = sync[k].attempt + 1
                   \/ /\ sync'[k].pc = "upload"
                      /\ sync'[k].thread = sync[k].thread
                      /\ sync'[k].first_message = None => sync[k].attempt = 2
          /\ (/\ sync[k].pc = "upload" /\ sync[k].first_message = None
              /\ sync'[k] # sync[k] /\ runs' = runs)
                => /\ sync'[k].pc = "create_issue"
                   /\ sync'[k].first_message = None
                   /\ sync'[k].thread = sync[k].thread
          /\ (/\ sync[k].pc = "create_issue" /\ sync[k].first_message = None
              /\ sync'[k].pc = "create_mapping")
                => /\ Len(issues') = Len(issues) + 1
                   /\ issues'[sync'[k].issue].thread = sync[k].thread
                   /\ issues'[sync'[k].issue].body = "(No message content available)"]_vars

\* An invocation has created its issue with the placeholder body.
C20_PlaceholderIssueWitness ==
    \E k \in Tasks :
        /\ sync[k].pc = "create_mapping"
        /\ issues[sync[k].issue].thread = sync[k].thread
        /\ issues[sync[k].issue].body = "(No message content available)"

(***************************************************************************)
(* Attachments, labels and failures of Forward Sync.                       *)
(***************************************************************************)
\* The links the description lists for the files named in seq.
LinksOf(seq) ==
    [n \in 1..Len(seq) |-> [filename |-> seq[n], asset_url |-> <<"asset", seq[n]>>]]

\* s keeps the order of t and leaves some of its elements out.
RECURSIVE IsSubsequence(_, _)
IsSubsequence(s, t) ==
    IF s = <<>> THEN TRUE
    ELSE IF t = <<>> THEN FALSE
    ELSE IF Head(s) = Head(t) THEN IsSubsequence(Tail(s), Tail(t))
    ELSE IsSubsequence(s, Tail(t))

\* C21: mirroring the attachments is best-effort.  Whatever attachments fail
\* at the download, the upload-slot request or the upload, the invocation
\* goes on to create the issue (the loop never ends in an error), and the
\* issue it creates lists the links of exactly the attachments whose three
\* steps succeeded, in the order of the message.
C21_AttachmentsBestEffort ==
    [][\A k \in Tasks :
          /\ sync[k].pc = "upload" => sync'[k].pc \in {"upload", "create_issue"}
          /\ sync[k].pc = "upload" /\ sync'[k].pc = "create_issue" =>
                /\ sync[k].pending = <<>>
                /\ IsSubsequence(mirrored[k], attachments)
                /\ sync'[k].attachment_links = LinksOf(mirrored[k])
          /\ sync[k].pc = "create_issue" /\ sync'[k].pc = "create_mapping" =>
                issues'[sync'[k].issue].attachment_links = LinksOf(mirrored[k])]_vars

\* The first attachment failed, the second was mirrored: the issue exists
\* with the second's link alone, and its mapping is persisted.
C21_PartlyMirroredWitness ==
    \E i \in 1..Len(issues) :
        /\ attachments = <<"a.png", "b.png">>
        /\ issues[i].attachment_links = LinksOf(<<"b.png">>)
        /\ \E m \in sync_mappings :
              m.linear_issue_id = i /\ m.discord_thread_id = to_string(issues[i].thread)

\* C22: the label list of a created issue is the primary label of the
\* thread's channel first, then, for the applied tags that are keys of the
\* channel's tag-to-label map and in the order of the applied tags, the label
\* each is mapped to; the other tags add nothing and stop nothing.
C22_LabelList ==
    [][\A k \in Tasks :
          sync[k].pc = "create_issue" /\ sync'[k].pc = "create_mapping" =>
             LET c == parent_id(sync[k].thread)
                 map == tag_label_map(c)
                 keys == SelectSeq(applied_tags, LAMBDA tag : to_string(tag) \in DOMAIN map)
             IN  issues'[sync'[k].issue].label_ids =
                    <<linear_label_id(c)>> \o
                    [n \in 1..Len(keys) |-> map[to_string(keys[n])]]]_vars

\* A thread of channel 1 with the tags 1, 3 and 2, of which 3 is not mapped:
\* its issue carries the primary label and the labels of 1 and 2.
C22_UnmappedTagWitness ==
    \E i \in 1..Len(issues) :
        /\ applied_tags = <<1, 3, 2>>
        /\ parent_id(issues[i].thread) = 1
        /\ issues[i].label_ids = <<"bug", "ui", "api">>

\* C23: an invocation that fails at the deduplication lookup (store error),
\* at the parent channel (a thread without one) or at the creation of the
\* issue ends in an error there and then, and up to that point it has written
\* no mapping row and posted no confirmation; once it has failed it does
\* nothing more.  A thread without parent channel that is not mapped always
\* fails.
C23_EarlyFailureAborts ==
    [][\A k \in Tasks :
          /\ sync[k].pc \in {"check", "fetch", "upload", "create_issue"} /\ sync'[k] # sync[k] =>
                /\ sync_mappings' = sync_mappings
                /\ confirmations' = confirmations
          /\ sync[k].pc \in {"check", "create_issue"} /\ sync'[k].pc = "err" =>
                /\ sync'[k].issue = 0
                /\ issues' = issues
          /\ sync[k].pc = "check" /\ sync[k].thread = DetachedThread /\ sync'[k] # sync[k] =>
                sync'[k].pc = "err"
          /\ sync[k].pc = "err" =>
                /\ sync'[k] \in {sync[k], Idle}
                /\ sync'[k] = Idle /\ sync[k].thread \in DOMAIN results =>
                      results'[sync[k].thread] = Append(results[sync[k].thread], "err")]_vars

\* The thread without parent channel and a thread whose issue could not be
\* created (or whose lookup failed) have returned errors; there is no issue,
\* no mapping row and no confirmation.
C23_FailedEarlyWitness ==
    /\ results[DetachedThread] = <<"err">>
    /\ \E t \in guild : results[t] = <<"err", "err">>
    /\ issues = <<>>
    /\ sync_mappings = {}
    /\ confirmations = {}

(***************************************************************************)
(* The reverse operations on their own.                                    *)
(***************************************************************************)
\* C24: sync_linear_to_discord called for an issue id that no sync_mappings
\* row carries returns an error at the lookup: it posts no status message and
\* writes no linear_status_cache row.
C24_NoMappingIsAnError ==
    [][(/\ poller.pc = "status_lookup"
        /\ \A m \in sync_mappings : m.linear_issue_id # Head(poller.queue).id
        /\ poller' # poller)
       => /\ poller'.pc = "comments"
          /\ Head(poller.queue).id \in sync_failed'
          /\ status_messages' = status_messages
          /\ linear_status_cache' = linear_status_cache]_vars

\* The operation has returned an error for the unmapped issue 3; no status
\* message mentions the issue and it has no cached status.
C24_UnmappedCallWitness ==
    /\ poller.pc = "comments"
    /\ Head(poller.queue).id = 3
    /\ 3 \in sync_failed
    /\ \A m \in sync_mappings : m.linear_issue_id # 3
    /\ \A n \in 1..Len(status_messages) : status_messages[n].issue # 3
    /\ linear_status_cache[3] = None

(***************************************************************************)
(* The backfill and the poller.                                            *)
(***************************************************************************)
\* C25: in each run of the process the backfill runs once and to its end
\* before the poller starts.  While the backfill has not returned the poller
\* does not exist; the poller's cursor is initialised, with the time of that
\* moment, in a step taken after run_backfill returned; no step of the
\* backfill is taken once the poller exists; and a backfill that has returned
\* does not run again before the process is started again.
C25_BackfillBeforePoller ==
    /\ [](poller.pc # "off" => phase = "live" /\ bf.pc = "done" /\ sync[0] = Idle)
    /\ [][/\ poller.pc = "off" /\ poller'.pc # "off" =>
                /\ bf.pc = "done"
                /\ poller'.pc = "sleep"
                /\ poller'.last_poll = clock
          /\ bf' # bf \/ sync'[0] # sync[0] => poller.pc = "off" \/ runs' = runs + 1
          /\ bf.pc = "done" /\ bf' # bf => runs' = runs + 1]_vars

\* The backfill has created an issue and returned, and the poller, started
\* afterwards, processes that issue in a tick.
C25_PollerAfterBackfillWitness ==
    /\ bf.pc = "done"
    /\ phase = "live"
    /\ poller.pc = "status_lookup"
    /\ Len(issues) > 0
    /\ calls # <<>>

(***************************************************************************)
(* The order of Forward Sync's effects.                                    *)
(***************************************************************************)
\* C26: Forward Sync creates the issue, writes the mapping row and posts the
\* confirmation in that order, each only after the one before it succeeded:
\* a row is written only by an invocation that has created its issue, and it
\* binds the invocation's thread to that issue; a confirmation is posted only
\* by an invocation whose row is written, and it names that thread and issue.
\* Hence every confirmation in a thread T naming an issue I comes with a
\* sync_mappings row binding T to I.
C26_IssueThenMappingThenConfirmation ==
    /\ [](\A c \in confirmations :
             \E m \in sync_mappings : /\ m.discord_thread_id = to_string(c.thread)
                                      /\ m.linear_issue_id = c.issue)
    /\ [][\A k \in Tasks :
             LET row == [discord_thread_id |-> to_string(sync[k].thread),
                         linear_issue_id |-> sync[k].issue]
             IN  /\ sync'[k].pc = "create_mapping" /\ sync[k].pc # "create_mapping" =>
                       /\ sync[k].pc = "create_issue"
                       /\ Len(issues') = Len(issues) + 1
                       /\ sync'[k].issue = Len(issues')
                       /\ issues'[sync'[k].issue].thread = sync[k].thread
                 /\ sync'[k].pc = "say" /\ sync[k].pc # "say" =>
                       /\ sync[k].pc = "create_mapping"
                       /\ row \notin sync_mappings
                       /\ sync_mappings' = sync_mappings \cup {row}
                 /\ sync'[k].pc = "ok" /\ sync[k].pc = "say" =>
                       /\ row \in sync_mappings
                       /\ confirmations' =
                             confirmations \cup {[thread |-> sync[k].thread,
                                                  issue |-> sync[k].issue]}]_vars
    /\ [][/\ sync_mappings' # sync_mappings =>
                \E k \in Tasks : sync[k].pc = "create_mapping" /\ sync'[k].pc = "say"
          /\ confirmations' # confirmations =>
                \E k \in Tasks : sync[k].pc = "say" /\ sync'[k].pc = "ok"]_vars

\* A confirmation has been posted in a thread; the issue it names exists and
\* the row binding the two is in the store.
C26_ConfirmedWitness ==
    \E c \in confirmations :
        /\ c.issue \in 1..Len(issues)
        /\ issues[c.issue].thread = c.thread
        /\ [discord_thread_id |-> to_string(c.thread), linear_issue_id |-> c.issue]
              \in sync_mappings

(***************************************************************************)
(* What the reverse direction's tables stand for.                          *)
(***************************************************************************)
\* C27: linear_status_cache is written by Reverse Status Sync only, in the
\* step after the status message was posted, and with the status of that
\* message; when the post fails the operation returns and the cache is as it
\* was.  Hence a cached status S of an issue I comes with a status message
\* announcing S for I in the thread I is mapped to.
C27_CacheFollowsPost ==
    /\ [](\A i \in IssueIds :
             linear_status_cache[i] # None =>
                \E n \in 1..Len(status_messages) :
                    /\ status_messages[n].issue = i
                    /\ status_messages[n].status_name = linear_status_cache[i][1]
                    /\ \E m \in sync_mappings :
                          /\ m.linear_issue_id = i
                          /\ m.discord_thread_id = to_string(status_messages[n].thread))
    /\ [][/\ linear_status_cache' # linear_status_cache =>
                /\ poller.pc = "status_upsert"
                /\ status_messages # <<>>
                /\ LET last == status_messages[Len(status_messages)]
                   IN  /\ last.issue = Head(poller.queue).id
                       /\ last.status_name = Head(poller.queue).status_name
                       /\ linear_status_cache' =
                             [linear_status_cache EXCEPT ![last.issue] = Some(last.status_name)]
          /\ poller.pc = "status_say" /\ status_messages' = status_messages /\ poller' # poller =>
                /\ poller'.pc \notin InStatusSync
                /\ linear_status_cache' = linear_status_cache
          /\ poller'.pc = "status_upsert" /\ poller.pc # "status_upsert" =>
                /\ poller.pc = "status_say"
                /\ Len(status_messages') = Len(status_messages) + 1]_vars

\* Issue 1 has the cached status "Done", announced in its thread, after its
\* earlier status "Todo" was announced and cached.
C27_CachedDoneWitness ==
    /\ linear_status_cache[1] = Some("Done")
    /\ Len(status_messages) = 2
    /\ status_messages[1] = [thread |-> ThreadA, issue |-> 1, status_name |-> "Todo"]
    /\ status_messages[2] = [thread |-> ThreadA, issue |-> 1, status_name |-> "Done"]

\* s is the end of t.
IsSuffix(s, t) ==
    /\ Len(s) <= Len(t)
    /\ \A n \in 1..Len(s) : s[n] = t[Len(t) - Len(s) + n]

InCommentLoop == {"comment_check", "comment_say", "comment_insert"}

\* C28: one invocation of Reverse Comment Sync goes through the comments in
\* the order of the list it fetched (the tracker's order of creation), one at
\* a time from the front; it posts the message of the comment at the front,
\* and inserts that comment's synced_comments row only in the step after its
\* message was posted; a failed post or insert ends the invocation.  Hence
\* every synced_comments row has a comment message of its comment in the
\* thread the comment's issue is mapped to.
C28_CommentRowFollowsPost ==
    /\ [](\A r \in synced_comments :
             \E n \in 1..Len(comment_messages) :
                 /\ comment_messages[n].comment = r.linear_comment_id
                 /\ r.linear_comment_id \in
                       {issues[r.linear_issue_id].comments[j] :
                          j \in 1..Len(issues[r.linear_issue_id].comments)}
                 /\ \E m \in sync_mappings :
                       /\ m.linear_issue_id = r.linear_issue_id
                       /\ m.discord_thread_id = to_string(comment_messages[n].thread))
    /\ [](poller.pc \in InCommentLoop =>
             IsSuffix(poller.comments, issues[Head(poller.queue).id].comments))
    /\ [][/\ poller.pc \in InCommentLoop /\ poller'.pc \in InCommentLoop =>
                poller'.comments \in {poller.comments, Tail(poller.comments)}
          /\ comment_messages' # comment_messages =>
                /\ poller.pc = "comment_say"
                /\ poller'.pc = "comment_insert"
                /\ comment_messages' =
                      Append(comment_messages,
                             [thread |-> comment_messages'[Len(comment_messages')].thread,
                              comment |-> Head(poller.comments)])
          /\ poller.pc = "comment_say" /\ comment_messages' = comment_messages
               /\ poller' # poller =>
                /\ poller'.pc \notin InCommentLoop
                /\ synced_comments' = synced_comments
          /\ synced_comments' # synced_comments =>
                /\ poller.pc = "comment_insert"
                /\ comment_messages[Len(comment_messages)].comment = Head(poller.comments)
                /\ synced_comments' =
                      synced_comments \cup
                         {[linear_comment_id |-> Head(poller.comments),
                           linear_issue_id |-> Head(poller.queue).id]}
          /\ poller'.pc = "comment_insert" /\ poller.pc # "comment_insert" =>
                poller.pc = "comment_say"]_vars

\* The two comments of issue 1 have been posted in its thread in the order
\* of their creation, each followed by its row.
C28_TwoCommentsInOrderWitness ==
    /\ comment_messages = <<[thread |-> ThreadA, comment |-> <<1, 1>>],
                            [thread |-> ThreadA, comment |-> <<1, 2>>]>>
    /\ synced_comments = {[linear_comment_id |-> <<1, 1>>, linear_issue_id |-> 1],
                          [linear_comment_id |-> <<1, 2>>, linear_issue_id |-> 1]}

(***************************************************************************)
(* The cursors.                                                            *)
(***************************************************************************)
\* C29: a channel whose backfill_state row says completed keeps a completed
\* row: no step, of this run of the process or of a later one, writes a row
\* that is not completed over it or removes it.
C29_CompletedStaysCompleted ==
    [][\A c \in ChannelKeys :
          Completed(backfill_state, c) =>
             /\ Completed(backfill_state', c)
             /\ backfill_state'[c] = backfill_state[c]]_vars

\* Channel 1 was completed although one of its threads has no mapping; the
\* process was started again, its backfill went past channel 1, and the row
\* is completed as before.
C29_RestartKeepsCompletedWitness ==
    /\ runs = 2
    /\ Completed(snap.backfill_state, to_string(1))
    /\ Completed(backfill_state, to_string(1))
    /\ bf.pc = "done"
    /\ \E t \in Channel1Threads :
          \A m \in sync_mappings : m.discord_thread_id # to_string(t)

\* C30: the time the cursor advances to is `now`, captured in the step that
\* starts the tick, before any team is fetched, and kept to the tick's end;
\* the cursor, the since-value of every fetch, changes at the end of a tick
\* only, so all the teams of a tick are asked with the same value.  Hence the
\* cursor never decreases, and an issue changed after the tick started (its
\* updated_at is later than `now`) is later than the cursor the tick leaves,
\* inside the window of the next tick.
C30_CursorIsTickStart ==
    [][/\ poller'.last_poll >= poller.last_poll
       /\ poller'.last_poll # poller.last_poll =>
             /\ TickEnds
             /\ poller'.last_poll = poller.now
       /\ poller.pc = "sleep" /\ poller'.pc # "sleep" =>
             /\ poller'.now = clock'
             /\ poller'.now > poller.last_poll
             /\ poller'.pc = "fetch" /\ poller'.ti = 1
             /\ fetch_ok' = {}
       /\ poller.pc \notin {"sleep", "off"} /\ ~TickEnds =>
             poller'.now = poller.now
       /\ \A i \in 1..Len(issues) :
             /\ poller.pc \notin {"sleep", "off"}
                  /\ issues'[i].updated_at # issues[i].updated_at =>
                   issues'[i].updated_at > poller.now
             /\ TickEnds /\ issues[i].updated_at > poller.now =>
                   issues'[i].updated_at > poller'.last_poll]_vars

\* In a tick team 1 has been fetched successfully, and one of its issues was
\* changed after the tick started.
C30_UpdatedDuringTickWitness ==
    /\ poller.pc = "fetch"
    /\ 1 \in fetch_ok
    /\ \E i \in 1..Len(issues) :
          /\ linear_team_id(parent_id(issues[i].thread)) = 1
          /\ issues[i].updated_at > poller.now

(***************************************************************************)
(* A confirmation that could not be posted.                                *)
(***************************************************************************)
\* The backfill cursor of some channel points at thread t.
CursorAt(t) ==
    \E c \in ChannelKeys :
        /\ backfill_state[c] # None
        /\ backfill_state[c][1].last_thread_id = Some(to_string(t))

\* C31: when the post of the confirmation fails the mapping row is already
\* written: the invocation returns an error and the row stays.  From then on
\* the thread has its row and no confirmation, for ever: every invocation of
\* Forward Sync that reaches the deduplication check for the thread ends
\* there.  The backfill whose invocation failed this way counts the thread as
\* failed and leaves backfill_state as it is, and no cursor ever points at the
\* thread.
C31_FailedConfirmationIsNeverPosted ==
    /\ [](\A t \in say_failed :
             /\ \E m \in sync_mappings : m.discord_thread_id = to_string(t)
             /\ \A c \in confirmations : c.thread # t
             /\ ~CursorAt(t))
    /\ [][\A k \in Tasks :
             /\ sync[k].pc = "say" /\ sync'[k].pc = "err" =>
                   /\ sync[k].thread \in say_failed'
                   /\ sync_mappings' = sync_mappings
                   /\ [discord_thread_id |-> to_string(sync[k].thread),
                       linear_issue_id |-> sync[k].issue] \in sync_mappings
                   /\ confirmations' = confirmations
             /\ (/\ sync[k].pc = "check" /\ sync[k].thread \in say_failed
                 /\ sync'[k] # sync[k] /\ runs' = runs) =>
                   sync'[k].pc \in {"ok", "err"}]_vars
    /\ [][(/\ bf.pc = "sync" /\ sync[0].pc = "err" /\ sync[0].thread \in say_failed
            /\ bf' # bf /\ runs' = runs) =>
              /\ sync[0].thread \in failed'
              /\ backfill_state' = backfill_state
              /\ bf'.pc = "loop"]_vars

\* The post failed in the backfill's invocation for a thread, which the
\* backfill counted as failed; the process is live and a later invocation for
\* the thread has ended at the check; the thread has its row, no
\* confirmation, and no cursor points at it.
C31_LaterSyncStopsWitness ==
    \E k \in LiveTasks :
        /\ sync[k].pc = "ok"
        /\ sync[k].issue = 0
        /\ sync[k].thread \in say_failed \cap failed
        /\ \E m \in sync_mappings : m.discord_thread_id = to_string(sync[k].thread)
        /\ \A c \in confirmations : c.thread # sync[k].thread
        /\ ~CursorAt(sync[k].thread)

====
